---- MODULE Spec2Model ----
(***************************************************************************)
(* A model of the FreeCAD MCP addon's RPC server                            *)
(* (addon/FreeCADMCP/rpc_server/rpc_server.py): the IP-filtered XML-RPC     *)
(* listener, the two module-level queues that carry WorkItems to the GUI    *)
(* thread and results back, the timer-driven pump process_gui_tasks, and    *)
(* the start/stop/settings commands.                                        *)
(***************************************************************************)
EXTENDS Naturals, Sequences, FiniteSets, TLC

\* ------------------------------------------------------------------ bounds

\* Width of a modelled IP address in bits (IPv4 has 32).
AddrBits == 3
\* Longest allow-list text enumerated for the parsing specification.
MaxLen == 4
\* Number of RPC calls clients issue in one behaviour.
MaxCalls == 2
\* Number of times start_rpc_server may succeed in one behaviour.
MaxStarts == 2
\* Most components in a relative path given to insert_part_from_library.
MaxPath == 3
\* Number of operations the MCP server process makes in one behaviour.
MaxOps == 6
\* Most content items in a tool response before the screenshot is added.
MaxItems == 2

\* --------------------------------------------------------------- addresses

Pow2(n) ==
    IF n = 0 THEN 1 ELSE IF n = 1 THEN 2 ELSE IF n = 2 THEN 4
    ELSE IF n = 3 THEN 8 ELSE IF n = 4 THEN 16 ELSE 32

\* 127.0.0.1, the address every connection to a "localhost" listener has.
Loopback == 1
\* A remote host inside the subnet written "S" below, and one outside it.
InsideAddr == Pow2(AddrBits - 1) + 2
OutsideAddr == Loopback + 1

ClientAddrs == {Loopback, InsideAddr, OutsideAddr}

\* ipaddress.ip_network(text, strict=False): the host bits of the written
\* address are masked off.
ip_network(addr, plen) ==
    [base |-> (addr \div Pow2(AddrBits - plen)) * Pow2(AddrBits - plen),
     plen |-> plen]

\* The netmask taken one bit too short.
AddrInNetworkWide(addr, net) ==
    LET plen == IF net.plen = 0 THEN 0 ELSE net.plen - 1
    IN  (addr \div Pow2(AddrBits - plen)) * Pow2(AddrBits - plen)
            = (net.base \div Pow2(AddrBits - plen)) * Pow2(AddrBits - plen)

\* "addr in network": the address masked with the netmask is the network
\* address.
AddrInNetwork(addr, net) ==
    (addr \div Pow2(AddrBits - net.plen)) * Pow2(AddrBits - net.plen) = net.base

\* ------------------------------------------------------- allow-list texts

\* A text is a sequence of characters.  "," and " " are the comma and a
\* whitespace character; every other character stands for one run of
\* non-comma, non-whitespace text:
\*   "L"  127.0.0.1                 (a host address)
\*   "S"  a CIDR subnet written with host bits set (upper half of the space)
\*   "H"  the host InsideAddr
\*   "x"  text that is no address ("not-an-ip")
Comma == ","
Space == " "
Atoms == {"L", "S", "H", "x"}
Chars == {Comma, Space} \cup Atoms

\* The address and prefix length an entry's text denotes; entries that are
\* not exactly one well-formed atom make ip_network raise ValueError.
EntryIsNetwork(entry) ==
    Len(entry) = 1 /\ entry[1] \in {"L", "S", "H"}

EntryNetwork(entry) ==
    IF entry[1] = "L" THEN ip_network(Loopback, AddrBits)
    ELSE IF entry[1] = "S" THEN ip_network(Pow2(AddrBits - 1) + 1, 1)
    ELSE ip_network(InsideAddr, AddrBits)

\* str.strip()
RECURSIVE lstrip(_)
lstrip(s) ==
    IF s # <<>> /\ Head(s) = Space THEN lstrip(Tail(s)) ELSE s

RECURSIVE rstrip(_)
rstrip(s) ==
    IF s # <<>> /\ s[Len(s)] = Space THEN rstrip(SubSeq(s, 1, Len(s) - 1)) ELSE s

strip(s) == rstrip(lstrip(s))

\* str.split(","): the fields between commas, empty fields included.
RECURSIVE SplitFrom(_, _, _)
SplitFrom(s, i, cur) ==
    IF i > Len(s) THEN <<cur>>
    ELSE IF s[i] = Comma THEN <<cur>> \o SplitFrom(s, i + 1, <<>>)
    ELSE SplitFrom(s, i + 1, Append(cur, s[i]))

split(s) == SplitFrom(s, 1, <<>>)

\* ", ".join(entries)
RECURSIVE join(_)
join(entries) ==
    IF entries = <<>> THEN <<>>
    ELSE IF Len(entries) = 1 THEN entries[1]
    ELSE entries[1] \o <<Comma, Space>> \o join(Tail(entries))

\* _COMMA_SEP_RE = ^\s*[^,\s]+(\s*,\s*[^,\s]+)*\s*$ as the automaton it
\* denotes.  States: "lead" (leading whitespace), "entry" (inside [^,\s]+),
\* "after" (whitespace after an entry), "sep" (after a comma).
CommaSepStep(q, ch) ==
    IF q = "lead" THEN
        (IF ch = Space THEN "lead" ELSE IF ch = Comma THEN "fail" ELSE "entry")
    ELSE IF q = "entry" THEN
        (IF ch = Space THEN "after" ELSE IF ch = Comma THEN "sep" ELSE "entry")
    ELSE IF q = "after" THEN
        (IF ch = Space THEN "after" ELSE IF ch = Comma THEN "sep" ELSE "fail")
    ELSE IF q = "sep" THEN
        (IF ch = Space THEN "sep" ELSE IF ch = Comma THEN "fail" ELSE "entry")
    ELSE "fail"

RECURSIVE CommaSepRun(_, _)
CommaSepRun(q, s) ==
    IF s = <<>> THEN q ELSE CommaSepRun(CommaSepStep(q, Head(s)), Tail(s))

_COMMA_SEP_RE(s) == CommaSepRun("lead", s) \in {"entry", "after"}

\* The loop giving up on the whole list at its first invalid entry.
ValidateEntriesAbort(entries) ==
    IF \E i \in 1..Len(entries) : ~EntryIsNetwork(strip(entries[i]))
    THEN [valid |-> <<>>,
          errors |-> <<[msg |-> "Invalid IP/subnet", entry |-> <<>>]>>]
    ELSE [valid |-> [i \in 1..Len(entries) |-> strip(entries[i])],
          errors |-> <<>>]

\* The loop of validate_allowed_ips over the split entries.
RECURSIVE ValidateEntries(_)
ValidateEntries(entries) ==
    IF entries = <<>> THEN [valid |-> <<>>, errors |-> <<>>]
    ELSE LET entry == strip(Head(entries))
             rest == ValidateEntries(Tail(entries))
         IN  IF EntryIsNetwork(entry)
             THEN [valid |-> <<entry>> \o rest.valid, errors |-> rest.errors]
             ELSE [valid |-> rest.valid,
                   errors |-> <<[msg |-> "Invalid IP/subnet", entry |-> entry]>>
                              \o rest.errors]

\* validate_allowed_ips(allowed_ips_str) -> (valid, errors)
validate_allowed_ips(s) ==
    IF s = <<>> \/ strip(s) = <<>>
    THEN [valid |-> <<>>,
          errors |-> <<[msg |-> "Input must not be empty.", entry |-> <<>>]>>]
    ELSE IF ~_COMMA_SEP_RE(s)
    THEN [valid |-> <<>>,
          errors |-> <<[msg |-> "Malformed list", entry |-> <<>>]>>]
    ELSE ValidateEntries(split(s))

RECURSIVE NetworksOf(_)
NetworksOf(valid) ==
    IF valid = <<>> THEN <<>>
    ELSE <<EntryNetwork(Head(valid))>> \o NetworksOf(Tail(valid))

\* _parse_allowed_ips(allowed_ips_str): the networks of the valid entries;
\* every error of the validation is printed as a warning.
_parse_allowed_ips(s) ==
    LET v == validate_allowed_ips(s)
    IN  [networks |-> NetworksOf(v.valid), warnings |-> v.errors]

\* A client address text that is no IP address.
BadAddr == Pow2(AddrBits)

\* ipaddress.ip_address(client_ip) returns (TRUE) or raises ValueError.
ip_address(client_ip) == client_ip \in 0..(Pow2(AddrBits) - 1)

\* The check letting everybody in when the instance has no network.
VerifyOpenWhenEmpty(allowed_networks, client_ip) ==
    \/ allowed_networks = <<>>
    \/ /\ ip_address(client_ip)
       /\ \E i \in 1..Len(allowed_networks) :
             AddrInNetwork(client_ip, allowed_networks[i])

\* FilteredXMLRPCServer.verify_request: the client address is accepted iff
\* it parses and lies in one of the instance's networks; a ValueError of
\* the parse is swallowed and the request rejected.
verify_request(allowed_networks, client_ip) ==
    /\ ip_address(client_ip)
    /\ \E i \in 1..Len(allowed_networks) :
          AddrInNetwork(client_ip, allowed_networks[i])

\* ------------------------------------------------------------------- state

VARIABLES
    settings,             \* the settings file: remote_enabled, allowed_ips
    rpc_server_instance,  \* <<>> (None) or <<the FilteredXMLRPCServer>>
    rpc_server_thread,    \* "None", or the server thread: "serving", "exited"
    rpc_request_queue,    \* WorkItems waiting for the GUI thread
    rpc_response_queue,   \* results waiting for the RPC thread
    call,                 \* the RPC calls clients issue, by call number
    chain,                \* the process_gui_tasks timer chains, by number
    chainTask,            \* the WorkItem a chain is executing, or NoTask
    guiStop,              \* the GUI thread is inside stop_rpc_server
    nextWork,             \* number the next WorkItem gets (history)
    started,              \* WorkItems in the order the pump took them (history)
    pushed,               \* WorkItems in the order their results were put (history)
    raised,               \* WorkItems whose execution raised (history)
    touched,              \* threads that have accessed the live document (history)
    msg,                  \* what the latest start/stop_rpc_server call came to
    tmp_files,            \* calls whose screenshot temporary file exists
    txt,                  \* parsing specification: the allow-list text
    parsed,               \* parsing specification: _parse_allowed_ips(txt)
    ppc,                  \* parsing specification: "input" or "parsed"
    obj_call,             \* object specification: a create_object/edit_object call
    obj_result,           \* object specification: what the call came to
    settings_file,        \* settings specification: what the settings file holds
    loaded,               \* settings specification: what load_settings returned
    lib_call,             \* library specification: an insert_part_from_library call
    lib_result,           \* library specification: what the call came to
    _freecad_connection,  \* MCP server: <<>> (None) or <<the FreeCADConnection>>
    conn_attrs,           \* MCP server: the attributes of the stored connection
    created,              \* MCP server: FreeCADConnections created so far (history)
    lifespan,             \* MCP server: "idle", "starting", "running", "down"
    bridge_up,            \* MCP server: the addon's listener can be reached
    last,                 \* MCP server: the latest operation and its outcome
    _only_text_feedback,  \* MCP server: the --only-text-feedback flag
    shot_call,            \* screenshot helper: an add_screenshot_if_available call
    shot_result,          \* screenshot helper: <<>> or <<the response returned>>
    dlg_call,             \* allowed-IPs dialog: the stored value, the text, ok
    stored_ips,           \* allowed-IPs dialog: <<>> or <<allowed_ips afterwards>>
    acc_call,             \* access check: the configured text and a client address
    verdict               \* access check: "none", "accepted", "rejected"

bridgeVars ==
    <<settings, rpc_server_instance, rpc_server_thread, rpc_request_queue,
      rpc_response_queue, call, chain, chainTask, guiStop, nextWork, started,
      pushed, raised, touched, msg, tmp_files>>

parseVars == <<txt, parsed, ppc>>

\* The variables of the specifications of single functions.
editVars == <<obj_call, obj_result>>

loadVars == <<settings_file, loaded>>

libVars == <<lib_call, lib_result>>

clientVars ==
    <<_freecad_connection, conn_attrs, created, lifespan, bridge_up, last>>

shotVars == <<_only_text_feedback, shot_call, shot_result>>

dialogVars == <<dlg_call, stored_ips>>

accessVars == <<acc_call, verdict>>

moreVars == <<shotVars, dialogVars, accessVars>>

pureVars == <<parseVars, editVars, loadVars, libVars, clientVars, moreVars>>

vars == <<bridgeVars, pureVars>>

Calls == 1..MaxCalls
Chains == 1..MaxStarts

\* The exposed methods modelled: ping answers on the RPC thread;
\* create_document and execute_code submit one WorkItem;
\* get_active_screenshot submits two; get_objects (as get_object and
\* list_documents) reads the document in the method itself.
Methods ==
    {"ping", "create_document", "execute_code", "get_active_screenshot",
     "get_objects"}

\* _DEFAULT_SETTINGS
_DEFAULT_SETTINGS ==
    [remote_enabled |-> FALSE,
     allowed_ips |-> <<"L">>,
     auto_start_server |-> TRUE,
     startup_remote_enabled |-> FALSE]

\* What the user may type into the Configure Allowed IPs dialog.
DialogTexts ==
    { <<"S">>,
      <<"x", Comma, Space, "S">>,
      <<"L", Comma, Comma>>,
      <<"x">>,
      <<Space>> }

\* chainTask of a chain that is executing nothing.
NoTask == [id |-> 0, call |-> 0, kind |-> "none"]

\* A call: its phase ("new", "pending" in the listener's backlog, "awaiting"
\* a result, and closed: "done", "rejected", "reset"), the method and the
\* client address (kept while the call is open or was rejected), what the
\* method returned, the WorkItems it has submitted, the number of results it
\* has taken, and whether each result it took was produced by the WorkItem
\* it had just submitted (history).
NewCall == [phase |-> "new", method |-> "none", addr |-> Loopback,
            ret |-> "none", sub |-> <<>>, got |-> 0, own |-> TRUE]

\* A call whose method has returned `ret`.
Done(c, ret, own) == [NewCall EXCEPT !.phase = "done", !.ret = ret, !.own = own]

BridgeInit ==
    /\ settings = _DEFAULT_SETTINGS
    /\ rpc_server_instance = <<>>
    /\ rpc_server_thread = "None"
    /\ rpc_request_queue = <<>>
    /\ rpc_response_queue = <<>>
    /\ call = [c \in Calls |-> NewCall]
    /\ chain = [k \in Chains |-> "unused"]
    /\ chainTask = [k \in Chains |-> NoTask]
    /\ guiStop = FALSE
    /\ nextWork = 1
    /\ started = <<>>
    /\ pushed = <<>>
    /\ raised = {}
    /\ touched = {}
    /\ msg = "none"
    /\ tmp_files = {}

ParseIdle ==
    /\ txt = <<>>
    /\ parsed = [networks |-> <<>>, warnings |-> <<>>]
    /\ ppc = "input"

\* No create_object/edit_object call is being followed.
NoObjCall == [op |-> "none"]
NoObjResult == [state |-> "none"]

EditIdle ==
    /\ obj_call = NoObjCall
    /\ obj_result = NoObjResult

\* load_settings is not being followed.
NotLoaded == [type |-> "none"]

LoadIdle ==
    /\ settings_file = [kind |-> "missing"]
    /\ loaded = NotLoaded

\* insert_part_from_library is not being followed.
NoLibResult == [outcome |-> "none", merged |-> FALSE]

LibIdle ==
    /\ lib_call = [absolute |-> FALSE, parts |-> <<>>, exists |-> FALSE]
    /\ lib_result = NoLibResult

\* The attributes of no object.
NoAttrs == [a \in {} |-> ""]

\* No operation of the MCP server process has been made.
NoOp == [n |-> 0, method |-> "none", reachable |-> FALSE, created |-> FALSE,
         outcome |-> "none"]

\* The MCP server process is not being followed.
ClientIdle ==
    /\ _freecad_connection = <<>>
    /\ conn_attrs = NoAttrs
    /\ created = 0
    /\ lifespan = "idle"
    /\ bridge_up = FALSE
    /\ last = NoOp

\* add_screenshot_if_available is not being followed.
ShotIdle ==
    /\ _only_text_feedback = FALSE
    /\ shot_call = [response |-> <<>>, screenshot |-> <<>>]
    /\ shot_result = <<>>

\* The allowed-IPs dialog is not being followed.
DialogIdle ==
    /\ dlg_call = [current_ips |-> <<"L">>, text |-> <<>>, ok |-> FALSE]
    /\ stored_ips = <<>>

\* The access check is not being followed.
AccessIdle ==
    /\ acc_call = [allowed_ips |-> <<"L">>, client_ip |-> Loopback]
    /\ verdict = "none"

MoreIdle == ShotIdle /\ DialogIdle /\ AccessIdle

Init ==
    /\ BridgeInit /\ ParseIdle /\ EditIdle /\ LoadIdle /\ LibIdle /\ ClientIdle
    /\ MoreIdle

\* ------------------------------------------------------------ RPC clients

Instance == rpc_server_instance[1]

\* The listener is bound to (host, port): "localhost" is reached from the
\* machine itself only, "0.0.0.0" from every address.
Reachable(host, addr) == host = "0.0.0.0" \/ addr = Loopback

\* A client opens a connection and sends one call; it waits in the
\* listener's backlog (the server reads the request when it handles it).  Calls are numbered in the order they are issued.
Connect(c, a) ==
    /\ call[c].phase = "new"
    /\ IF c = 1 THEN TRUE ELSE call[c - 1].phase # "new"
    /\ rpc_server_instance # <<>>
    /\ Reachable(Instance.host, a)
    /\ call' = [call EXCEPT ![c] =
                  [@ EXCEPT !.phase = "pending", !.addr = a]]
    /\ UNCHANGED <<pureVars, msg, tmp_files, touched, settings, rpc_server_instance, rpc_server_thread,
                   rpc_request_queue, rpc_response_queue, chain, chainTask,
                   guiStop, nextWork, started, pushed, raised>>

\* ---------------------------------------------------------- server thread

\* A call whose method is blocked in rpc_response_queue.get().
Awaiting(c) == call[c].phase = "awaiting"

ThreadedListener == TRUE

\* SimpleXMLRPCServer handles a request inside the serve_forever loop: the
\* loop takes the next connection only when no handler is running.
ListenerFree == \A c \in Calls : ~Awaiting(c)

\* The WorkItem a method submits first.
FirstTask(m) ==
    IF m = "get_active_screenshot" THEN "check_view_supports_screenshots" ELSE m

\* A method putting its WorkItem twice.
PutTaskTwice(c, kind) ==
    /\ rpc_request_queue' =
          rpc_request_queue \o <<[id |-> nextWork, call |-> c, kind |-> kind],
                                 [id |-> nextWork, call |-> c, kind |-> kind]>>
    /\ nextWork' = nextWork + 1

\* rpc_request_queue.put(task) by call c.
PutTask(c, kind) ==
    /\ rpc_request_queue' =
          Append(rpc_request_queue, [id |-> nextWork, call |-> c, kind |-> kind])
    /\ nextWork' = nextWork + 1

\* serve_forever takes one connection: verify_request, then the requested
\* method m runs up to its return or to its first rpc_response_queue.get().
Accept(c, m) ==
    /\ rpc_server_thread = "serving"
    /\ ~Instance.shutdown_request
    /\ ListenerFree
    /\ call[c].phase = "pending"
    /\ IF ~verify_request(Instance.allowed_networks, call[c].addr)
       THEN /\ call' = [call EXCEPT ![c].phase = "rejected", ![c].method = m]
            /\ UNCHANGED <<rpc_request_queue, nextWork, touched>>
       ELSE IF m = "ping"
       THEN /\ call' = [call EXCEPT ![c] = Done(c, "True", TRUE)]
            /\ UNCHANGED <<rpc_request_queue, nextWork, touched>>
       ELSE IF m = "get_objects"
       THEN /\ call' = [call EXCEPT ![c] = Done(c, "objects", TRUE)]
            /\ touched' = touched \cup {"rpc"}
            /\ UNCHANGED <<rpc_request_queue, nextWork>>
       ELSE /\ PutTask(c, FirstTask(m))
            /\ call' = [call EXCEPT ![c].phase = "awaiting",
                                    ![c].method = m,
                                    ![c].sub = Append(@, nextWork)]
            /\ UNCHANGED touched
    /\ UNCHANGED <<pureVars, msg, tmp_files, settings, rpc_server_instance, rpc_server_thread,
                   rpc_response_queue, chain, chainTask, guiStop, started,
                   pushed, raised>>

\* A test that takes every answer for a yes.
AlwaysTruthy(val) == TRUE

\* "if res is True" / "if not supports_screenshots"
Truthy(val) == val # "False"

\* The method leaving its temporary file where it is.
KeepTemp(files, c) == files

\* "if os.path.exists(tmp_path): os.remove(tmp_path)" in call c's method.
RemoveTemp(files, c) == files \ {c}

\* What reading and encoding the captured file comes to: the encoded image,
\* or an exception that leaves the method through its finally clause.
ReadOutcomes == {"image", "raise"}

\* res = rpc_response_queue.get() returns in call c's method: the item at
\* the head of the queue, whoever produced it.  A screenshot call creates
\* its temporary file before it submits the capture, and removes it before
\* it returns or raises.
TakeResult(c) ==
    /\ Awaiting(c)
    /\ rpc_response_queue # <<>>
    /\ LET res == Head(rpc_response_queue)
           own == call[c].own /\ res.work = call[c].sub[Len(call[c].sub)]
       IN  /\ rpc_response_queue' = Tail(rpc_response_queue)
           /\ IF call[c].method = "get_active_screenshot"
              THEN IF call[c].got = 0
                   THEN IF Truthy(res.val)
                        THEN /\ tmp_files' = tmp_files \cup {c}
                             /\ PutTask(c, "_save_active_screenshot")
                             /\ call' = [call EXCEPT ![c].got = 1,
                                           ![c].own = own,
                                           ![c].sub = Append(@, nextWork)]
                        ELSE /\ call' = [call EXCEPT ![c] = Done(c, "None", own)]
                             /\ UNCHANGED <<rpc_request_queue, nextWork,
                                            tmp_files>>
                   ELSE /\ IF res.val = "True"
                           THEN \E r \in ReadOutcomes :
                                   call' = [call EXCEPT ![c] = Done(c, r, own)]
                           ELSE call' = [call EXCEPT ![c] = Done(c, "None", own)]
                        /\ tmp_files' = RemoveTemp(tmp_files, c)
                        /\ UNCHANGED <<rpc_request_queue, nextWork>>
              ELSE /\ call' = [call EXCEPT ![c] =
                                 Done(c, IF res.val = "True"
                                         THEN "success" ELSE "failure", own)]
                   /\ UNCHANGED <<rpc_request_queue, nextWork, tmp_files>>
    /\ UNCHANGED <<pureVars, msg, touched, settings, rpc_server_instance, rpc_server_thread, chain,
                   chainTask, guiStop, started, pushed, raised>>

\* serve_forever sees the shutdown request and returns.
ExitLoop ==
    /\ rpc_server_thread = "serving"
    /\ Instance.shutdown_request
    /\ ListenerFree
    /\ rpc_server_thread' = "exited"
    /\ UNCHANGED <<pureVars, msg, tmp_files, touched, settings, rpc_server_instance, rpc_request_queue,
                   rpc_response_queue, call, chain, chainTask, guiStop,
                   nextWork, started, pushed, raised>>

\* -------------------------------------------------------------- GUI thread

ConcurrentCallbacks == TRUE

\* The GUI thread runs one callback at a time: a timer callback or a
\* command starts only when no pump invocation is running and the thread is
\* not blocked inside stop_rpc_server.
GuiIdle ==
    /\ ~guiStop
    /\ \A k \in Chains : chain[k] \notin {"loop", "exec"}

\* start_rpc_server without its check for a running instance.
StartWithoutCheck ==
    /\ GuiIdle
    /\ \E k \in Chains :
          /\ chain[k] = "unused"
          /\ \A j \in Chains : j < k => chain[j] # "unused"
          /\ chain' = [chain EXCEPT ![k] = "timer"]
    /\ rpc_server_instance' =
          << [host |-> IF settings.remote_enabled THEN "0.0.0.0" ELSE "localhost",
              allowed_networks |->
                  _parse_allowed_ips(settings.allowed_ips).networks,
              shutdown_request |-> FALSE] >>
    /\ rpc_server_thread' = "serving"
    /\ msg' = "RPC Server started."
    /\ UNCHANGED <<pureVars, tmp_files, touched, settings, rpc_request_queue,
                   rpc_response_queue, call, chainTask, guiStop, nextWork,
                   started, pushed, raised>>

\* start_rpc_server (also ToggleRPCServerCommand while stopped): a new
\* listener from the stored settings, a new server thread, and one more
\* QTimer.singleShot(500, process_gui_tasks).
\* While an instance exists the call returns at once; a constructor that
\* raises (the port is taken: OSError from bind) leaves before the globals
\* are assigned.
start_rpc_server ==
    /\ GuiIdle
    /\ IF rpc_server_instance # <<>>
       THEN /\ msg' = "RPC Server already running."
            /\ UNCHANGED <<rpc_server_instance, rpc_server_thread, chain>>
       ELSE \/ /\ msg' = "OSError"
               /\ UNCHANGED <<rpc_server_instance, rpc_server_thread, chain>>
            \/ /\ \E k \in Chains :
                     /\ chain[k] = "unused"
                     /\ \A j \in Chains : j < k => chain[j] # "unused"
                     /\ chain' = [chain EXCEPT ![k] = "timer"]
               /\ rpc_server_instance' =
                     << [host |-> IF settings.remote_enabled
                                  THEN "0.0.0.0" ELSE "localhost",
                         allowed_networks |->
                             _parse_allowed_ips(settings.allowed_ips).networks,
                         shutdown_request |-> FALSE] >>
               /\ rpc_server_thread' = "serving"
               /\ msg' = "RPC Server started."
    /\ UNCHANGED <<pureVars, tmp_files, touched, settings, rpc_request_queue,
                   rpc_response_queue, call, chainTask, guiStop, nextWork,
                   started, pushed, raised>>

\* stop_rpc_server (also ToggleRPCServerCommand while running), first
\* half: shutdown() sets the request and waits for serve_forever to return.
\* With no instance the call returns at once.
StopBegin ==
    /\ GuiIdle
    /\ IF rpc_server_instance # <<>>
       THEN /\ rpc_server_instance' =
                  <<[Instance EXCEPT !.shutdown_request = TRUE]>>
            /\ guiStop' = TRUE
            /\ UNCHANGED msg
       ELSE /\ msg' = "RPC Server was not running."
            /\ UNCHANGED <<rpc_server_instance, guiStop>>
    /\ UNCHANGED <<pureVars, tmp_files, touched, settings, rpc_server_thread, rpc_request_queue,
                   rpc_response_queue, call, chain, chainTask, nextWork,
                   started, pushed, raised>>

\* stop_rpc_server, second half: the loop has returned, join() returns, both
\* globals are reset.  The listener's socket goes with the instance, and
\* the connections still in its backlog are reset.
StopEnd ==
    /\ guiStop
    /\ rpc_server_thread = "exited"
    /\ rpc_server_instance' = <<>>
    /\ rpc_server_thread' = "None"
    /\ guiStop' = FALSE
    /\ msg' = "RPC Server stopped."
    /\ call' = [c \in Calls |->
                  IF call[c].phase = "pending"
                  THEN [NewCall EXCEPT !.phase = "reset"] ELSE call[c]]
    /\ UNCHANGED <<pureVars, tmp_files, touched, settings, rpc_request_queue, rpc_response_queue, chain,
                   chainTask, nextWork, started, pushed, raised>>

\* ToggleRemoteConnectionsCommand.Activated
ToggleRemoteConnections ==
    /\ GuiIdle
    /\ settings' = [settings EXCEPT !.remote_enabled = ~@]
    /\ UNCHANGED <<pureVars, msg, tmp_files, touched, rpc_server_instance, rpc_server_thread, rpc_request_queue,
                   rpc_response_queue, call, chain, chainTask, guiStop,
                   nextWork, started, pushed, raised>>

\* The dialog saving the text as it was typed once one entry of it is valid.
SaveAsTyped(current_ips, text, ok) ==
    IF ok /\ strip(text) # <<>> /\ validate_allowed_ips(strip(text)).valid # <<>>
    THEN [allowed_ips |-> strip(text), saved |-> TRUE]
    ELSE [allowed_ips |-> current_ips, saved |-> FALSE]

\* ConfigureAllowedIPsCommand.Activated, from the stored value and what
\* QInputDialog.getText returned (text, ok): the allowed_ips in the settings
\* file afterwards, and whether save_settings was called.
SaveAllowedIPs(current_ips, text, ok) ==
    IF ok /\ strip(text) # <<>>
    THEN LET v == validate_allowed_ips(strip(text))
         IN  IF v.valid = <<>>
             THEN [allowed_ips |-> current_ips, saved |-> FALSE]
             ELSE [allowed_ips |-> join(v.valid), saved |-> TRUE]
    ELSE [allowed_ips |-> current_ips, saved |-> FALSE]

\* The dialog applying the list to the running listener as well.
ConfigureAllowedIPsLive(text) ==
    /\ GuiIdle
    /\ LET v == validate_allowed_ips(strip(text))
           ok == strip(text) # <<>> /\ v.valid # <<>>
       IN  /\ settings' = IF ok THEN [settings EXCEPT !.allowed_ips = join(v.valid)]
                          ELSE settings
           /\ rpc_server_instance' =
                  IF ok /\ rpc_server_instance # <<>>
                  THEN <<[Instance EXCEPT
                            !.allowed_networks = NetworksOf(v.valid)]>>
                  ELSE rpc_server_instance
    /\ UNCHANGED <<pureVars, msg, tmp_files, touched, rpc_server_thread, rpc_request_queue,
                   rpc_response_queue, call, chain, chainTask, guiStop,
                   nextWork, started, pushed, raised>>

\* ConfigureAllowedIPsCommand.Activated with the dialog accepted on `text`.
ConfigureAllowedIPs(text) ==
    /\ GuiIdle
    /\ settings' =
          [settings EXCEPT !.allowed_ips =
              SaveAllowedIPs(settings.allowed_ips, text, TRUE).allowed_ips]
    /\ UNCHANGED <<pureVars, msg, tmp_files, touched, rpc_server_instance, rpc_server_thread, rpc_request_queue,
                   rpc_response_queue, call, chain, chainTask, guiStop,
                   nextWork, started, pushed, raised>>

\* -------------------------------------------------------------------- pump

\* What task() does, by the function the WorkItem wraps: the value it
\* returns, or "raise" when an exception leaves it.  _create_document_gui
\* has no try/except; the other tasks return str(e) from theirs.
TaskOutcomes(kind) ==
    IF kind = "create_document" THEN {"True", "raise"}
    ELSE IF kind = "check_view_supports_screenshots" THEN {"True", "False"}
    ELSE {"True", "error"}

PeekOnly(q) == q

\* rpc_request_queue.get() removes the item it returns.
Dequeue(q) == Tail(q)

\* The timer of chain k fires: process_gui_tasks is entered.
PumpFire(k) ==
    /\ chain[k] = "timer"
    /\ GuiIdle
    /\ chain' = [chain EXCEPT ![k] = "loop"]
    /\ UNCHANGED <<pureVars, msg, tmp_files, touched, settings, rpc_server_instance, rpc_server_thread,
                   rpc_request_queue, rpc_response_queue, call, chainTask,
                   guiStop, nextWork, started, pushed, raised>>

\* while not rpc_request_queue.empty(): task = rpc_request_queue.get()
PumpTake(k) ==
    /\ chain[k] = "loop"
    /\ rpc_request_queue # <<>>
    /\ chainTask' = [chainTask EXCEPT ![k] = Head(rpc_request_queue)]
    /\ rpc_request_queue' = Dequeue(rpc_request_queue)
    /\ chain' = [chain EXCEPT ![k] = "exec"]
    /\ started' = Append(started, Head(rpc_request_queue).id)
    /\ UNCHANGED <<pureVars, msg, tmp_files, touched, settings, rpc_server_instance, rpc_server_thread,
                   rpc_response_queue, call, guiStop, nextWork, pushed,
                   raised>>

\* res = task(); if res is not None: rpc_response_queue.put(res).  An
\* exception leaves process_gui_tasks before it re-arms its timer.  A
\* capture WorkItem may write the file at its call's temporary path.
PumpRun(k) ==
    /\ chain[k] = "exec"
    /\ \E res \in TaskOutcomes(chainTask[k].kind) :
          IF res = "raise"
          THEN /\ chain' = [chain EXCEPT ![k] = "dead"]
               /\ raised' = raised \cup {chainTask[k].id}
               /\ UNCHANGED <<rpc_response_queue, pushed>>
          ELSE /\ chain' = [chain EXCEPT ![k] = "loop"]
               /\ rpc_response_queue' =
                     Append(rpc_response_queue,
                            [val |-> res, work |-> chainTask[k].id])
               /\ pushed' = Append(pushed, chainTask[k].id)
               /\ UNCHANGED raised
    /\ chainTask' = [chainTask EXCEPT ![k] = NoTask]
    /\ touched' = touched \cup {"gui"}
    /\ IF chainTask[k].kind = "_save_active_screenshot"
       THEN \E wrote \in BOOLEAN :
               tmp_files' = IF wrote THEN tmp_files \cup {chainTask[k].call}
                            ELSE tmp_files
       ELSE UNCHANGED tmp_files
    /\ UNCHANGED <<pureVars, msg, settings, rpc_server_instance, rpc_server_thread,
                   rpc_request_queue, call, guiStop, nextWork, started>>

\* process_gui_tasks returning without arming its timer again.
PumpNoRearm(k) ==
    /\ chain[k] = "loop"
    /\ rpc_request_queue = <<>>
    /\ chain' = [chain EXCEPT ![k] = "dead"]
    /\ UNCHANGED <<pureVars, msg, tmp_files, touched, settings, rpc_server_instance, rpc_server_thread,
                   rpc_request_queue, rpc_response_queue, call, chainTask,
                   guiStop, nextWork, started, pushed, raised>>

\* The queue is empty: QtCore.QTimer.singleShot(500, process_gui_tasks).
PumpRearm(k) ==
    /\ chain[k] = "loop"
    /\ rpc_request_queue = <<>>
    /\ chain' = [chain EXCEPT ![k] = "timer"]
    /\ UNCHANGED <<pureVars, msg, tmp_files, touched, settings, rpc_server_instance, rpc_server_thread,
                   rpc_request_queue, rpc_response_queue, call, chainTask,
                   guiStop, nextWork, started, pushed, raised>>

\* ------------------------------------------------------------ specification

ClientStep == \E c \in Calls, a \in ClientAddrs : Connect(c, a)

ServerStep == \/ \E c \in Calls, m \in Methods : Accept(c, m)
              \/ \E c \in Calls : TakeResult(c)
              \/ ExitLoop

CommandStep == \/ start_rpc_server
               \/ StopBegin
               \/ ToggleRemoteConnections
               \/ \E text \in DialogTexts : ConfigureAllowedIPs(text)

PumpStep == \E k \in Chains : \/ PumpFire(k)
                              \/ PumpTake(k)
                              \/ PumpRun(k)
                              \/ PumpRearm(k)

Next ==
    \/ ClientStep
    \/ ServerStep
    \/ CommandStep
    \/ StopEnd
    \/ PumpStep

Spec == Init /\ [][Next]_vars

\* The server thread runs whenever it can, the GUI thread services its
\* timers and every task it has started ends (by returning or raising), and
\* join() returns once the server thread has ended.  Clients and the user
\* are under no obligation to act.
FairSpec ==
    /\ Init
    /\ [][Next]_vars
    /\ WF_vars(ServerStep)
    /\ WF_vars(PumpStep)
    /\ WF_vars(StopEnd)

\* ------------------------------------------- the allow-list parser alone

\* Every text of at most MaxLen characters.
Texts == UNION { [1..n -> Chars] : n \in 0..MaxLen }

ParseInit ==
    /\ BridgeInit
    /\ MoreIdle
    /\ EditIdle
    /\ LoadIdle
    /\ LibIdle
    /\ ClientIdle
    /\ txt \in Texts
    /\ parsed = [networks |-> <<>>, warnings |-> <<>>]
    /\ ppc = "input"

\* FilteredXMLRPCServer.__init__: self._allowed_networks =
\* _parse_allowed_ips(allowed_ips_str)
ParseText ==
    /\ ppc = "input"
    /\ parsed' = _parse_allowed_ips(txt)
    /\ ppc' = "parsed"
    /\ UNCHANGED <<bridgeVars, moreVars, txt, editVars, loadVars, libVars, clientVars>>

SpecParse == ParseInit /\ [][ParseText]_vars

\* ------------------------------------- create_object / edit_object alone

\* The properties a call may carry, and what holds of each value sent:
\* "absent" (not in the dict), "ok", or "bad": for Length a value the
\* property cannot be assigned, for Base the name of an object that does not
\* exist, for References a list naming an object that does not exist.
PropNames == {"Length", "Base", "References"}
PropValues == {"absent", "ok", "bad"}

\* The object types a create_object call may name: one doc.addObject
\* accepts, one it refuses, and a "Fem::" type ObjectsFem has no make
\* method for.
ObjTypes == {"Part::Box", "No::Type", "Fem::None"}

\* set_object_property: every property is assigned inside its own
\* try/except; an exception (setattr refusing the value, the ValueError of
\* a missing referenced object) is printed and the loop goes on.  The
\* function returns None whatever happened.
set_object_property(properties) ==
    [assigned |-> { n \in PropNames : properties[n] = "ok" },
     printed |-> { n \in PropNames : properties[n] = "bad" },
     raised |-> FALSE]

\* FreeCADRPC._create_object_gui: True, or the message of the failure.
_create_object_gui(doc_found, type, properties) ==
    IF ~doc_found THEN "Document not found."
    ELSE IF type = "Fem::None" THEN "No creation method found in ObjectsFem."
    ELSE IF type = "No::Type" THEN "str(e)"
    ELSE IF set_object_property(properties).raised THEN "str(e)"
    ELSE "True"

\* FreeCADRPC._edit_object_gui: True, or the message of the failure.  The
\* References of an object that has the attribute are resolved here, and
\* removed from the properties before set_object_property sees them.
_edit_object_gui(doc_found, obj_found, has_references, properties) ==
    IF ~doc_found THEN "Document not found."
    ELSE IF ~obj_found THEN "Object not found in document."
    ELSE IF has_references /\ properties["References"] = "bad"
    THEN "Referenced object not found."
    ELSE LET rest == IF has_references /\ properties["References"] # "absent"
                     THEN [properties EXCEPT !["References"] = "absent"]
                     ELSE properties
         IN  IF set_object_property(rest).raised THEN "str(e)" ELSE "True"

\* create_object / edit_object after rpc_response_queue.get():
\* "if res is True" success, else {"success": False, "error": res}.
ResultRecord(res) ==
    IF res = "True" THEN [state |-> "returned", success |-> TRUE, error |-> ""]
    ELSE [state |-> "returned", success |-> FALSE, error |-> res]

ObjCalls ==
    [op : {"create_object"}, doc_found : BOOLEAN, type : ObjTypes,
     properties : [PropNames -> PropValues]]
    \cup
    [op : {"edit_object"}, doc_found : BOOLEAN, obj_found : BOOLEAN,
     has_references : BOOLEAN, properties : [PropNames -> PropValues]]

EditInit ==
    /\ BridgeInit
    /\ MoreIdle
    /\ ParseIdle
    /\ LoadIdle
    /\ LibIdle
    /\ ClientIdle
    /\ obj_call \in ObjCalls
    /\ obj_result = NoObjResult

\* create_object: the WorkItem _create_object_gui runs and the method
\* returns on its result.
CreateObjectCall ==
    /\ obj_result = NoObjResult
    /\ obj_call.op = "create_object"
    /\ obj_result' = ResultRecord(_create_object_gui(obj_call.doc_found,
                                     obj_call.type, obj_call.properties))
    /\ UNCHANGED <<bridgeVars, moreVars, parseVars, loadVars, libVars, clientVars,
                   obj_call>>

\* edit_object: the WorkItem _edit_object_gui runs and the method returns
\* on its result.
EditObjectCall ==
    /\ obj_result = NoObjResult
    /\ obj_call.op = "edit_object"
    /\ obj_result' = ResultRecord(_edit_object_gui(obj_call.doc_found,
                                     obj_call.obj_found, obj_call.has_references,
                                     obj_call.properties))
    /\ UNCHANGED <<bridgeVars, moreVars, parseVars, loadVars, libVars, clientVars,
                   obj_call>>

EditNext == CreateObjectCall \/ EditObjectCall

SpecEdit == EditInit /\ [][EditNext]_vars

\* ------------------------------------------------------ load_settings alone

DefaultKeys == DOMAIN _DEFAULT_SETTINGS

\* A value of each key other than its default, and a key load_settings
\* does not know.
OtherSettings ==
    [remote_enabled |-> TRUE,
     allowed_ips |-> <<"S">>,
     auto_start_server |-> FALSE,
     startup_remote_enabled |-> TRUE,
     future_key |-> "v"]

\* The JSON objects a settings file may hold: any of the keys, each default
\* key with its default or with another value.
StoredObjects ==
    { [k \in K |-> IF k \in D THEN OtherSettings[k] ELSE _DEFAULT_SETTINGS[k]] :
        <<K, D>> \in { kd \in (SUBSET DOMAIN OtherSettings)
                               \X (SUBSET DOMAIN OtherSettings) :
                           /\ kd[2] \subseteq kd[1]
                           /\ kd[1] \ kd[2] \subseteq DefaultKeys } }

\* What the settings file may hold: nothing (no file), text json.load cannot
\* read, a JSON object, or another JSON value: an array or a string (of
\* which `holds` are the default keys that are elements of the array, or
\* substrings of the string), a number or null.
SettingsFiles ==
    {[kind |-> "missing"], [kind |-> "unreadable"], [kind |-> "scalar"]}
    \cup [kind : {"object"}, content : StoredObjects]
    \cup [kind : {"array", "string"}, holds : SUBSET DefaultKeys]

\* load_settings(): the loop fills the missing default keys into whatever
\* json.load returned; any exception on the way gives the defaults.
load_settings(file) ==
    IF file.kind \in {"missing", "unreadable"}
    THEN [type |-> "dict", value |-> _DEFAULT_SETTINGS]
    ELSE IF file.kind = "object"
    THEN [type |-> "dict",
          value |-> [k \in DOMAIN file.content \cup DefaultKeys |->
                       IF k \in DOMAIN file.content THEN file.content[k]
                       ELSE _DEFAULT_SETTINGS[k]]]
    ELSE IF file.kind = "scalar"
    THEN \* "key not in settings" raises TypeError
         [type |-> "dict", value |-> _DEFAULT_SETTINGS]
    ELSE IF DefaultKeys \subseteq file.holds
    THEN \* every "key not in settings" is False: nothing is assigned
         \* and the array or string itself is returned
         [type |-> file.kind, value |-> file.holds]
    ELSE \* "settings[key] = value" raises TypeError
         [type |-> "dict", value |-> _DEFAULT_SETTINGS]

LoadInit ==
    /\ BridgeInit
    /\ MoreIdle
    /\ ParseIdle
    /\ EditIdle
    /\ LibIdle
    /\ ClientIdle
    /\ settings_file \in SettingsFiles
    /\ loaded = NotLoaded

LoadSettings ==
    /\ loaded = NotLoaded
    /\ loaded' = load_settings(settings_file)
    /\ UNCHANGED <<bridgeVars, moreVars, parseVars, editVars, libVars, clientVars,
                   settings_file>>

SpecLoad == LoadInit /\ [][LoadSettings]_vars

\* ------------------------------------------- insert_part_from_library alone

\* A path is whether it is absolute and the sequence of its components
\* (the text between separators).  parts_lib_path is absolute.
parts_lib_path == [absolute |-> TRUE, parts |-> <<"data", "parts_library">>]

\* The components a relative_path is made of: the parent and current
\* directory, the names of the library's own path, a directory beside the
\* library whose name starts with the library's name, and a part file with
\* the extension in the right and in the wrong case.
PathParts ==
    {"..", ".", "data", "parts_library", "parts_library_old",
     "part.FCStd", "part.fcstd"}

\* os.path.join(a, b): an absolute b replaces a.
path_join(a, b) ==
    IF b.absolute THEN b
    ELSE [absolute |-> a.absolute, parts |-> a.parts \o b.parts]

\* os.path.normpath: "." is dropped, ".." removes the component before it;
\* at the root of an absolute path ".." is dropped, in a relative path it
\* is kept.
RECURSIVE NormParts(_, _, _)
NormParts(absolute, done, rest) ==
    IF rest = <<>> THEN done
    ELSE IF Head(rest) = "." THEN NormParts(absolute, done, Tail(rest))
    ELSE IF Head(rest) = ".."
    THEN IF done # <<>> /\ done[Len(done)] # ".."
         THEN NormParts(absolute, SubSeq(done, 1, Len(done) - 1), Tail(rest))
         ELSE IF absolute THEN NormParts(absolute, done, Tail(rest))
         ELSE NormParts(absolute, Append(done, ".."), Tail(rest))
    ELSE NormParts(absolute, Append(done, Head(rest)), Tail(rest))

normpath(path) ==
    [absolute |-> path.absolute,
     parts |-> NormParts(path.absolute, <<>>, path.parts)]

\* str.startswith on one component: the names that begin with `prefix`.
NameStartsWith(name, prefix) ==
    \/ name = prefix
    \/ prefix = "parts_library" /\ name = "parts_library_old"

\* part_path.startswith(dir) with no separator after dir.
PathStartsWithDirName(path, dir) ==
    /\ path.absolute = dir.absolute
    /\ Len(path.parts) >= Len(dir.parts)
    /\ \A i \in 1..(Len(dir.parts) - 1) : path.parts[i] = dir.parts[i]
    /\ NameStartsWith(path.parts[Len(dir.parts)], dir.parts[Len(dir.parts)])

\* part_path.startswith(dir + os.sep): the text of `path` begins with the
\* text of `dir` followed by a separator.
PathStartsWithDir(path, dir) ==
    /\ path.absolute = dir.absolute
    /\ Len(path.parts) > Len(dir.parts)
    /\ \A i \in 1..Len(dir.parts) : path.parts[i] = dir.parts[i]

\* part_path.endswith(".FCStd")
EndsWithFCStd(path) ==
    path.parts # <<>> /\ path.parts[Len(path.parts)] = "part.FCStd"

\* insert_part_from_library(relative_path): the exception it raises, or
\* the merge of the file into the active document.
insert_part_from_library(relative_path, exists) ==
    LET part_path == normpath(path_join(parts_lib_path, relative_path))
    IN  IF ~PathStartsWithDir(part_path, normpath(parts_lib_path))
        THEN [outcome |-> "ValueError: Path traversal attempt detected",
              merged |-> FALSE]
        ELSE IF ~EndsWithFCStd(part_path)
        THEN [outcome |-> "ValueError: Only .FCStd files are allowed",
              merged |-> FALSE]
        ELSE IF ~exists
        THEN [outcome |-> "FileNotFoundError", merged |-> FALSE]
        ELSE [outcome |-> "returned", merged |-> TRUE]

RelativePaths ==
    [absolute : BOOLEAN,
     parts : UNION { [1..n -> PathParts] : n \in 0..MaxPath }]

LibInit ==
    /\ BridgeInit
    /\ MoreIdle
    /\ ParseIdle
    /\ EditIdle
    /\ LoadIdle
    /\ ClientIdle
    /\ \E rp \in RelativePaths, ex \in BOOLEAN :
          lib_call = [absolute |-> rp.absolute, parts |-> rp.parts,
                      exists |-> ex]
    /\ lib_result = NoLibResult

InsertPart ==
    /\ lib_result = NoLibResult
    /\ lib_result' =
          insert_part_from_library(
              [absolute |-> lib_call.absolute, parts |-> lib_call.parts],
              lib_call.exists)
    /\ UNCHANGED <<bridgeVars, moreVars, parseVars, editVars, loadVars, clientVars,
                   lib_call>>

SpecLib == LibInit /\ [][InsertPart]_vars

\* ------------------------------------------- the MCP server process alone

\* The FreeCADConnection methods followed: ping, create_document (as every
\* method that is one call of self.server) and get_active_screenshot.
ClientMethods == {"ping", "create_document", "get_active_screenshot"}

\* What self.server.<method>(...) comes to: an xmlrpc call on a listener
\* that cannot be reached raises (ConnectionRefusedError); on one that is
\* reached it returns what the addon's method returned.
ServerProxyCall(reachable, answers) ==
    IF reachable THEN answers ELSE {"raise ConnectionRefusedError"}

\* FreeCADConnection.ping / create_document: the call itself, nothing
\* around it.
ConnectionOutcomes(method, reachable) ==
    IF method = "ping" THEN ServerProxyCall(reachable, {"True"})
    ELSE ServerProxyCall(reachable, {"success", "failure"})

\* FreeCADConnection.get_active_screenshot: the capability snippet, then
\* the capture, all inside try/except Exception that returns None.
get_active_screenshot(reachable) ==
    LET Guarded(outs) ==
            { IF o = "raise ConnectionRefusedError" THEN "None" ELSE o :
                o \in outs }
        check == ServerProxyCall(reachable, {"supported", "unsupported", "failure"})
    IN  UNION { IF c = "supported"
                THEN Guarded(ServerProxyCall(reachable, {"image", "None"}))
                ELSE IF c \in {"unsupported", "failure"} THEN {"None"}
                ELSE Guarded({c}) : c \in check }

\* FreeCADConnection.__init__(host, port): the attributes the new object
\* has.  The only assignment is self.server = ServerProxy(url).
FreeCADConnection(host, port) ==
    [a \in {"server"} |-> "ServerProxy http://" \o host \o ":" \o port]

\* get_freecad_connection creating a connection on every call.
NewConnectionEachTime ==
    /\ lifespan \in {"starting", "running"}
    /\ last.n < MaxOps
    /\ created' = created + 1
    /\ _freecad_connection' = <<created + 1>>
    /\ conn_attrs' = FreeCADConnection("localhost", "9875")
    /\ last' = [n |-> last.n + 1, method |-> "get_freecad_connection",
                reachable |-> bridge_up, created |-> TRUE,
                outcome |-> "connection"]
    /\ lifespan' = "running"
    /\ UNCHANGED <<bridgeVars, moreVars, parseVars, editVars, loadVars, libVars,
                   bridge_up>>

\* get_freecad_connection(), called by server_lifespan at startup and by
\* every tool: the stored connection, created first when none is stored.
\* Nothing is sent to the listener.
get_freecad_connection ==
    /\ lifespan \in {"starting", "running"}
    /\ last.n < MaxOps
    /\ IF _freecad_connection = <<>>
       THEN /\ created' = created + 1
            /\ _freecad_connection' = <<created + 1>>
            /\ conn_attrs' = FreeCADConnection("localhost", "9875")
       ELSE UNCHANGED <<created, _freecad_connection, conn_attrs>>
    /\ last' = [n |-> last.n + 1, method |-> "get_freecad_connection",
                reachable |-> bridge_up, created |-> _freecad_connection = <<>>,
                outcome |-> "connection"]
    /\ lifespan' = "running"
    /\ UNCHANGED <<bridgeVars, moreVars, parseVars, editVars, loadVars, libVars,
                   bridge_up>>

\* A tool calls a method of the connection it got.  No method assigns an
\* attribute of the connection.
ConnectionCall(method) ==
    /\ lifespan = "running"
    /\ _freecad_connection # <<>>
    /\ last.n < MaxOps
    /\ \E o \in IF method = "get_active_screenshot"
                 THEN get_active_screenshot(bridge_up)
                 ELSE ConnectionOutcomes(method, bridge_up) :
          last' = [n |-> last.n + 1, method |-> method,
                   reachable |-> bridge_up, created |-> FALSE, outcome |-> o]
    /\ UNCHANGED <<bridgeVars, moreVars, parseVars, editVars, loadVars, libVars,
                   _freecad_connection, conn_attrs, created, lifespan,
                   bridge_up>>

\* The addon's listener is started or stopped in FreeCAD.
BridgeChange ==
    /\ lifespan \in {"starting", "running"}
    /\ bridge_up' = ~bridge_up
    /\ UNCHANGED <<bridgeVars, moreVars, parseVars, editVars, loadVars, libVars,
                   _freecad_connection, conn_attrs, created, lifespan, last>>

\* server_lifespan's finally block: FreeCADConnection has no disconnect
\* method, so with a connection stored the call raises AttributeError
\* before the global is reset.
LifespanShutdown ==
    /\ lifespan = "running"
    /\ lifespan' = "down"
    /\ last' = [n |-> last.n, method |-> "server_lifespan",
                reachable |-> bridge_up, created |-> FALSE,
                outcome |-> IF _freecad_connection # <<>>
                            THEN "raise AttributeError" ELSE "shut down"]
    /\ UNCHANGED <<bridgeVars, moreVars, parseVars, editVars, loadVars, libVars,
                   _freecad_connection, conn_attrs, created, bridge_up>>

ClientInit ==
    /\ BridgeInit
    /\ MoreIdle
    /\ ParseIdle
    /\ EditIdle
    /\ LoadIdle
    /\ LibIdle
    /\ _freecad_connection = <<>>
    /\ conn_attrs = NoAttrs
    /\ created = 0
    /\ lifespan = "starting"
    /\ bridge_up \in BOOLEAN
    /\ last = NoOp

ClientNext ==
    \/ get_freecad_connection
    \/ \E method \in ClientMethods : ConnectionCall(method)
    \/ BridgeChange
    \/ LifespanShutdown

SpecClient == ClientInit /\ [][ClientNext]_vars

\* ------------------------------------------- the screenshot helper alone

\* The content items a tool response holds.
TextContent(text) == [type |-> "text", text |-> text]
ImageContent(data) == [type |-> "image", data |-> data, mimeType |-> "image/png"]

UnavailableNote ==
    "Note: Visual preview is unavailable in the current view type"

\* The helper appending whatever the text-only flag says.
AddScreenshotAlways(response, screenshot) ==
    IF screenshot # <<>>
    THEN Append(response, ImageContent(screenshot[1]))
    ELSE Append(response, TextContent(UnavailableNote))

\* add_screenshot_if_available(response, screenshot): the list returned.
\* screenshot is <<>> for None and <<data>> for a string.
add_screenshot_if_available(response, screenshot) ==
    IF screenshot # <<>> /\ ~_only_text_feedback
    THEN Append(response, ImageContent(screenshot[1]))
    ELSE IF ~_only_text_feedback
    THEN Append(response, TextContent(UnavailableNote))
    ELSE response

Items == {TextContent("created"), TextContent("failed"), ImageContent("old")}
Responses == UNION { [1..n -> Items] : n \in 0..MaxItems }
Screenshots == {<<>>, <<"">>, <<"png">>}

ShotInit ==
    /\ BridgeInit
    /\ ParseIdle
    /\ EditIdle
    /\ LoadIdle
    /\ LibIdle
    /\ ClientIdle
    /\ DialogIdle
    /\ AccessIdle
    /\ _only_text_feedback \in BOOLEAN
    /\ \E r \in Responses, sh \in Screenshots :
          shot_call = [response |-> r, screenshot |-> sh]
    /\ shot_result = <<>>

AddScreenshot ==
    /\ shot_result = <<>>
    /\ shot_result' =
          <<add_screenshot_if_available(shot_call.response,
                                        shot_call.screenshot)>>
    /\ UNCHANGED <<bridgeVars, parseVars, editVars, loadVars, libVars,
                   clientVars, dialogVars, accessVars,
                   _only_text_feedback, shot_call>>

SpecShot == ShotInit /\ [][AddScreenshot]_vars

\* ------------------------------------------- the allowed-IPs dialog alone

\* Values the settings file may hold when the dialog opens.
CurrentIPs == { <<"L">>, <<"S", Comma, Space, "H">> }

DialogInit ==
    /\ BridgeInit
    /\ ParseIdle
    /\ EditIdle
    /\ LoadIdle
    /\ LibIdle
    /\ ClientIdle
    /\ ShotIdle
    /\ AccessIdle
    /\ \E cur \in CurrentIPs, t \in Texts, ok \in BOOLEAN :
          dlg_call = [current_ips |-> cur, text |-> t, ok |-> ok]
    /\ stored_ips = <<>>

DialogActivated ==
    /\ stored_ips = <<>>
    /\ stored_ips' =
          <<SaveAllowedIPs(dlg_call.current_ips, dlg_call.text, dlg_call.ok)>>
    /\ UNCHANGED <<bridgeVars, parseVars, editVars, loadVars, libVars,
                   clientVars, shotVars, accessVars, dlg_call>>

SpecDialog == DialogInit /\ [][DialogActivated]_vars

\* ------------------------------------------------- the access check alone

AccessInit ==
    /\ BridgeInit
    /\ ParseIdle
    /\ EditIdle
    /\ LoadIdle
    /\ LibIdle
    /\ ClientIdle
    /\ ShotIdle
    /\ DialogIdle
    /\ \E t \in Texts, a \in ClientAddrs \cup {BadAddr} :
          acc_call = [allowed_ips |-> t, client_ip |-> a]
    /\ verdict = "none"

\* A FilteredXMLRPCServer built on the configured text verifies a request.
VerifyRequest ==
    /\ verdict = "none"
    /\ verdict' =
          IF verify_request(_parse_allowed_ips(acc_call.allowed_ips).networks,
                            acc_call.client_ip)
          THEN "accepted" ELSE "rejected"
    /\ UNCHANGED <<bridgeVars, parseVars, editVars, loadVars, libVars,
                   clientVars, shotVars, dialogVars, acc_call>>

SpecAccess == AccessInit /\ [][VerifyRequest]_vars


\* ------------------------------------------------------------------ claims

Range(seq) == { seq[i] : i \in 1..Len(seq) }

\* The chains whose process_gui_tasks invocation is running, and those
\* that are inside a task.
ActivePumps == { k \in Chains : chain[k] \in {"loop", "exec"} }
Executing == { k \in Chains : chain[k] = "exec" }

\* C1: every result a call's method has taken from the response queue was
\* produced by the WorkItem that call had just submitted, also while another
\* caller's call is in progress.
C1_OwnResult == \A c \in Calls : call[c].own

\* A screenshot call has taken its first result and waits for its second
\* while an earlier caller's call still waits in the backlog.
C1_Witness ==
    \E a, b \in Calls :
        /\ b < a
        /\ call[b].phase = "pending"
        /\ Awaiting(a) /\ call[a].got = 1 /\ call[a].own

\* C2 (as claimed): a WorkItem whose execution raised has had a result put
\* on the response queue, and while the server runs a pump invocation is
\* still running or scheduled.
C2_PumpToleratesFailure ==
    /\ \A w \in raised : w \in Range(pushed)
    /\ rpc_server_instance # <<>> =>
          \E k \in Chains : chain[k] \in {"timer", "loop", "exec"}

\* C3 (as claimed): a call that waits for a result does not wait forever.
C3_WaitEnds == \A c \in Calls : Awaiting(c) ~> ~Awaiting(c)

\* C4: at most one process_gui_tasks invocation is running and at most one
\* WorkItem is executing, and every WorkItem started before the latest one
\* has had its result pushed; also with several timer chains after restarts.
C4_Sequential ==
    /\ Cardinality(ActivePumps) <= 1
    /\ Cardinality(Executing) <= 1
    /\ \A i \in 1..Len(started) :
          i < Len(started) => started[i] \in Range(pushed)

\* The server has been restarted, both timer chains are alive, and the
\* second chain executes a WorkItem after an earlier one was answered.
C4_Witness ==
    /\ MaxStarts >= 2
    /\ chain[1] = "timer"
    /\ chain[2] = "exec"
    /\ Len(started) >= 2

\* C5: WorkItems are taken in the order they were enqueued (the order of
\* their numbers), results are pushed in that order, and every WorkItem
\* enqueued and not yet taken is still in the queue, in order.
C5_Fifo ==
    /\ \A i \in 1..Len(started) : started[i] = i
    /\ \A i, j \in 1..Len(pushed) : i < j => pushed[i] < pushed[j]
    /\ Len(rpc_request_queue) = (nextWork - 1) - Len(started)
    /\ \A i \in 1..Len(rpc_request_queue) :
          rpc_request_queue[i].id = Len(started) + i

\* Two results have been pushed and a third WorkItem waits in the queue.
C5_Witness == Len(pushed) >= 2 /\ rpc_request_queue # <<>>

\* C6 (as claimed): no WorkItem is executed twice, no execution pushes two
\* results, no execution ends without a result being pushed, and no more
\* results are taken than were pushed.
C6_OneToOne ==
    /\ \A i, j \in 1..Len(started) : started[i] = started[j] => i = j
    /\ \A i, j \in 1..Len(pushed) : pushed[i] = pushed[j] => i = j
    /\ \A w \in Range(started) :
          (\A k \in Chains : chainTask[k].id # w) => w \in Range(pushed)
    /\ Len(rpc_response_queue) <= Len(pushed)

\* C7: if the GUI thread is never blocked for good and no WorkItem raises,
\* every call that waits for a result gets it and returns.
C7_EventuallyAnswered ==
    ([]<>(~guiStop) /\ [](raised = {}))
        => \A c \in Calls : Awaiting(c) ~> (call[c].phase = "done")

\* After a restart a call has been answered through the bridge.
C7_Witness ==
    /\ \E k \in Chains : k > 1 /\ chain[k] # "unused"
    /\ \E c \in Calls : call[c].phase = "done" /\ call[c].ret = "success"
    /\ Len(pushed) >= 2

\* The addresses a network holds, as a range.
InNetworkRange(addr, net) ==
    /\ net.base <= addr
    /\ addr < net.base + Pow2(AddrBits - net.plen)

\* The client address of call c lies in none of the running instance's
\* networks.
Excluded(c) ==
    /\ rpc_server_instance # <<>>
    /\ \A i \in 1..Len(Instance.allowed_networks) :
          ~InNetworkRange(call[c].addr, Instance.allowed_networks[i])

\* C8: a connection from an address in none of the instance's networks is
\* only ever rejected, whatever method it asks for, and rejecting it creates
\* no WorkItem; a call that was not admitted has submitted and returned
\* nothing.
C8_ExcludedNeverDispatched ==
    /\ [][\A c \in Calls :
            (call[c].phase = "pending" /\ Excluded(c) /\ call'[c] # call[c])
               => /\ call'[c].phase \in {"rejected", "reset"}
                  /\ rpc_request_queue' = rpc_request_queue
                  /\ nextWork' = nextWork]_vars
    /\ [](\A c \in Calls :
            call[c].phase \in {"new", "pending", "rejected", "reset"}
               => /\ call[c].sub = <<>>
                  /\ call[c].ret = "none"
                  /\ \A i \in 1..Len(rpc_request_queue) :
                        rpc_request_queue[i].call # c)

\* A ping from an address outside the allow-list of a listener bound to all
\* interfaces has been rejected.
C8_Witness ==
    \E c \in Calls :
        /\ call[c].phase = "rejected"
        /\ call[c].method = "ping"
        /\ call[c].addr = OutsideAddr

\* C9 (as claimed): a listener started with remote access disabled is bound
\* to loopback and never rejects a loopback caller, and a listener started
\* with remote access enabled is bound to all interfaces.
C9_LocalServerAcceptsLoopback ==
    [][/\ (rpc_server_instance = <<>> /\ rpc_server_instance' # <<>>)
            => (rpc_server_instance'[1].host = "localhost")
                   = ~settings.remote_enabled
       /\ \A c \in Calls :
            (/\ call[c].phase = "pending"
             /\ rpc_server_instance # <<>>
             /\ Instance.host = "localhost"
             /\ call[c].addr = Loopback)
               => call'[c].phase # "rejected"]_vars

\* The fields of a text between its commas, by the positions of the commas.
CommaPositions(s) == { i \in 1..Len(s) : s[i] = Comma }

Cut(s, j) ==
    IF j = 0 THEN 0
    ELSE IF j > Cardinality(CommaPositions(s)) THEN Len(s) + 1
    ELSE CHOOSE i \in CommaPositions(s) :
            Cardinality({ k \in CommaPositions(s) : k < i }) = j - 1

Field(s, j) == SubSeq(s, Cut(s, j - 1) + 1, Cut(s, j) - 1)

\* A field without the whitespace around it.
Trimmed(f) ==
    LET solid == { i \in 1..Len(f) : f[i] # Space }
    IN  IF solid = {} THEN <<>>
        ELSE SubSeq(f, CHOOSE i \in solid : \A k \in solid : i <= k,
                       CHOOSE i \in solid : \A k \in solid : k <= i)

Entries(s) ==
    [j \in 1..(Cardinality(CommaPositions(s)) + 1) |-> Trimmed(Field(s, j))]

IsNetworkText(e) == EntryIsNetwork(e)

\* The networks of the entries of s that are addresses or subnets, in order.
ExpectedNetworks(s) == NetworksOf(SelectSeq(Entries(s), IsNetworkText))

\* No entry of s is empty or holds whitespace inside it.
WellFormedList(s) ==
    \A j \in 1..Len(Entries(s)) :
        /\ Entries(s)[j] # <<>>
        /\ \A i \in 1..Len(Entries(s)[j]) : Entries(s)[j][i] # Space

\* C10 (as claimed): the parsed allow-list holds exactly the networks of the
\* valid entries of the text, whatever else the text holds.
C10_InvalidEntriesSkipped ==
    ppc = "parsed" => parsed.networks = ExpectedNetworks(txt)

\* C10 (amended): for a text with no empty entry and no whitespace inside an
\* entry, the parsed allow-list holds exactly the networks of its valid
\* entries, with one warning for each other entry; for any other text the
\* parsed allow-list is empty and there is one warning.
C10_WellFormedListParsed ==
    ppc = "parsed" =>
        IF WellFormedList(txt)
        THEN /\ parsed.networks = ExpectedNetworks(txt)
             /\ Len(parsed.warnings) =
                   Len(Entries(txt)) - Len(ExpectedNetworks(txt))
        ELSE /\ parsed.networks = <<>>
             /\ Len(parsed.warnings) = 1

\* A text with a valid and an invalid entry has been parsed: the valid
\* entry's network is kept and the other entry is warned about.
C10_Witness ==
    /\ ppc = "parsed"
    /\ \E i, j \in 1..Len(Entries(txt)) :
          IsNetworkText(Entries(txt)[i]) /\ ~IsNetworkText(Entries(txt)[j])
    /\ Len(parsed.networks) = 1
    /\ Len(parsed.warnings) = 1

\* The listener's bind address and networks as start_rpc_server computes
\* them from the stored settings.
HostOf(st) == IF st.remote_enabled THEN "0.0.0.0" ELSE "localhost"
NetworksOfSettings(st) == _parse_allowed_ips(st.allowed_ips).networks

\* C11: while an instance exists its bind address and its networks do not
\* change, whatever command runs; an instance that comes into being has the
\* bind address and networks of the settings stored at that moment.
C11_InstanceImmutable ==
    [][/\ (rpc_server_instance # <<>> /\ rpc_server_instance' # <<>>)
            => /\ rpc_server_instance'[1].host = Instance.host
               /\ rpc_server_instance'[1].allowed_networks
                     = Instance.allowed_networks
       /\ (rpc_server_instance = <<>> /\ rpc_server_instance' # <<>>)
            => /\ rpc_server_instance'[1].host = HostOf(settings)
               /\ rpc_server_instance'[1].allowed_networks
                     = NetworksOfSettings(settings)]_vars

\* Both settings were changed while the instance runs: it still has the
\* bind address and networks it was started with, and has since rejected a
\* caller the new list would admit.
C11_Witness ==
    /\ rpc_server_instance # <<>>
    /\ Instance.host # HostOf(settings)
    /\ Instance.allowed_networks # NetworksOfSettings(settings)
    /\ \E c \in Calls :
          /\ call[c].phase = "rejected"
          /\ verify_request(NetworksOfSettings(settings), call[c].addr)

\* C13 (as claimed): the GUI thread is never inside stop_rpc_server waiting
\* for the server thread while the server thread is inside a method waiting
\* for a result that only the GUI thread's pump can produce.
C13_NoGuiDeadlock ==
    ~(/\ guiStop
      /\ rpc_server_thread = "serving"
      /\ rpc_response_queue = <<>>
      /\ \E c \in Calls : Awaiting(c))

\* The capture WorkItems that exist: queued or being executed.
CaptureItems ==
    { rpc_request_queue[i] : i \in { j \in 1..Len(rpc_request_queue) :
          rpc_request_queue[j].kind = "_save_active_screenshot" } }
    \cup { chainTask[k] : k \in { j \in Chains :
          chainTask[j].kind = "_save_active_screenshot" } }

\* C14: get_active_screenshot submits the capture WorkItem only on taking a
\* true answer of its capability check; on a false answer it returns None
\* and submits nothing; a capture WorkItem only ever belongs to a
\* screenshot call that has taken its check's answer.
C14_TwoPhaseScreenshot ==
    /\ [][\A c \in Calls :
            (/\ Awaiting(c)
             /\ call[c].method = "get_active_screenshot"
             /\ call[c].got = 0
             /\ call'[c] # call[c])
               => IF Head(rpc_response_queue).val = "True"
                  THEN /\ Awaiting(c)'
                       /\ call'[c].got = 1
                       /\ rpc_request_queue' =
                             Append(rpc_request_queue,
                                    [id |-> nextWork, call |-> c,
                                     kind |-> "_save_active_screenshot"])
                  ELSE /\ call'[c].phase = "done"
                       /\ call'[c].ret = "None"
                       /\ rpc_request_queue' = rpc_request_queue
                       /\ nextWork' = nextWork]_vars
    /\ [](\A w \in CaptureItems :
            /\ call[w.call].method = "get_active_screenshot"
            /\ call[w.call].got = 1
            /\ Len(call[w.call].sub) = 2
            /\ call[w.call].sub[1] \in Range(pushed))

\* A screenshot call has returned None after its check answered false, and
\* the check is the only WorkItem that was ever created.
C14_Witness ==
    /\ \E c \in Calls : call[c].phase = "done" /\ call[c].ret = "None"
    /\ nextWork = 2
    /\ pushed = <<1>>
    /\ rpc_request_queue = <<>>

\* C15 (as claimed): no exposed method has accessed the live document on
\* the RPC server thread.
C15_DocumentOnlyOnGuiThread == "rpc" \notin touched

\* The application fails somewhere in the call: the document or the object
\* is missing, the type cannot be created, or a property sent cannot be
\* assigned or names an object that does not exist.
ApplicationFails(oc) ==
    \/ ~oc.doc_found
    \/ oc.op = "edit_object" /\ ~oc.obj_found
    \/ oc.op = "create_object" /\ oc.type # "Part::Box"
    \/ \E n \in PropNames : oc.properties[n] = "bad"

\* C12 (as claimed): a create_object or edit_object call in which the
\* application fails returns a failure record with a message, never
\* success.
C12_FailureReported ==
    (obj_result.state = "returned" /\ ApplicationFails(obj_call))
        => (~obj_result.success /\ obj_result.error # "")

\* C17 (as claimed): load_settings returns a record with every default key;
\* a key the file holds keeps its stored value, a default key it lacks has
\* its default, and a missing or unreadable file gives exactly the
\* defaults.
C17_LoadedHasDefaults ==
    loaded # NotLoaded =>
        /\ loaded.type = "dict"
        /\ DefaultKeys \subseteq DOMAIN loaded.value
        /\ settings_file.kind = "object" =>
              \A k \in DOMAIN loaded.value :
                 loaded.value[k] = IF k \in DOMAIN settings_file.content
                                   THEN settings_file.content[k]
                                   ELSE _DEFAULT_SETTINGS[k]
        /\ settings_file.kind \in {"missing", "unreadable"} =>
              loaded.value = _DEFAULT_SETTINGS

\* Where a relative path leads from the library directory, and whether
\* that is a place below the library directory.
Target(lc) ==
    normpath(path_join(parts_lib_path,
                       [absolute |-> lc.absolute, parts |-> lc.parts]))

StrictlyInside(path) ==
    /\ path.absolute
    /\ Len(path.parts) > Len(parts_lib_path.parts)
    /\ SubSeq(path.parts, 1, Len(parts_lib_path.parts)) = parts_lib_path.parts

\* C18: a file is merged only if the normalized join lies strictly inside
\* the library directory and ends with ".FCStd"; every other path raises
\* ValueError and nothing is merged.
C18_OnlyLibraryParts ==
    lib_result # NoLibResult =>
        /\ lib_result.merged =>
              StrictlyInside(Target(lib_call)) /\ EndsWithFCStd(Target(lib_call))
        /\ ~(StrictlyInside(Target(lib_call)) /\ EndsWithFCStd(Target(lib_call)))
              => /\ ~lib_result.merged
                 /\ lib_result.outcome \in
                       {"ValueError: Path traversal attempt detected",
                        "ValueError: Only .FCStd files are allowed"}

\* A path that leaves the library for the directory beside it whose name
\* starts with the library's name has been rejected.
C18_Witness ==
    /\ lib_result.outcome = "ValueError: Path traversal attempt detected"
    /\ lib_call.parts = <<"..", "parts_library_old", "part.FCStd">>
    /\ ~lib_call.absolute
    /\ lib_call.exists

\* What a method returns when the listener was reached: its application
\* level results.
ApplicationOutcomes(method) ==
    IF method = "get_active_screenshot" THEN get_active_screenshot(TRUE)
    ELSE ConnectionOutcomes(method, TRUE)

\* C16 (as claimed): a FreeCADConnection method called while the listener
\* cannot be reached never comes to an outcome the method also has when the
\* listener was reached.
C16_TransportErrorDistinct ==
    (last.method \in ClientMethods /\ ~last.reachable)
        => last.outcome \notin ApplicationOutcomes(last.method)

\* C19: a call of get_freecad_connection with no connection stored creates
\* one, stores it and returns it; a call with a connection stored creates
\* none and returns the stored one; no other operation changes the stored
\* connection.
C19_ConnectionReused ==
    [][/\ (last'.n # last.n /\ last'.method = "get_freecad_connection")
            => IF _freecad_connection = <<>>
               THEN /\ created' = created + 1
                    /\ _freecad_connection' = <<created'>>
                    /\ last'.created
               ELSE /\ created' = created
                    /\ _freecad_connection' = _freecad_connection
                    /\ ~last'.created
       /\ ~(last'.n # last.n /\ last'.method = "get_freecad_connection")
            => /\ _freecad_connection' = _freecad_connection
               /\ created' = created]_vars

\* get_freecad_connection has been called again, after other operations,
\* and returned the one connection ever created.
C19_Witness ==
    /\ last.n = MaxOps
    /\ last.method = "get_freecad_connection"
    /\ ~last.created
    /\ created = 1
    /\ _freecad_connection = <<1>>

\* C20 (as claimed): get_freecad_connection, called with no connection
\* stored while a ping of the listener cannot succeed, raises "Failed to
\* connect" and returns no connection.
C20_RaisesOnPingFailure ==
    (/\ last.method = "get_freecad_connection"
     /\ last.created
     /\ ~last.reachable)
        => last.outcome = "raise Failed to connect"

\* The timer chains that are alive: their callback is scheduled or running.
LiveChains == { k \in Chains : chain[k] \in {"timer", "loop", "exec"} }

\* C23 (as claimed): while the server is stopped no process_gui_tasks
\* invocation is scheduled or running, and at no time is more than one
\* timer chain alive.
C23_PumpFollowsServer ==
    /\ rpc_server_instance = <<>> => LiveChains = {}
    /\ Cardinality(LiveChains) <= 1

\* C24: the request queue and the response queue together hold at most
\* one item, and while they hold one or a WorkItem is executing exactly one
\* call is waiting for it.
C24_OneOutstanding ==
    /\ Len(rpc_request_queue) + Len(rpc_response_queue)
          + Cardinality(Executing) <= 1
    /\ Cardinality({ c \in Calls : Awaiting(c) }) <= 1
    /\ (rpc_request_queue # <<>> \/ rpc_response_queue # <<>> \/ Executing # {})
          => \E c \in Calls : Awaiting(c)

\* A result waits on the response queue for the screenshot call that is
\* in its second phase, while another caller's call waits in the backlog.
C24_Witness ==
    /\ Len(rpc_response_queue) = 1
    /\ rpc_request_queue = <<>>
    /\ \E a, b \in Calls :
          /\ Awaiting(a) /\ call[a].got = 1
          /\ call[b].phase = "pending"

\* C26: when the listener serves get_objects (a direct read on the RPC
\* thread) no WorkItem is executing or queued and no result is waiting to
\* be taken.
C26_DirectReadNotDuringWork ==
    [][\A c \in Calls :
          (call[c].phase = "pending" /\ call'[c].ret = "objects")
             => /\ Executing = {}
                /\ rpc_request_queue = <<>>
                /\ rpc_response_queue = <<>>
                /\ \A w \in Range(started) : w \in Range(pushed) \cup raised]_vars

\* A direct read has been served after a bridge call was answered and
\* while a timer chain is alive.
C26_Witness ==
    /\ \E c \in Calls : call[c].phase = "done" /\ call[c].ret = "objects"
    /\ \E c \in Calls : call[c].phase = "done" /\ call[c].ret = "success"
    /\ pushed # <<>>

\* C29 (as claimed): when server_lifespan has ended, the stored connection
\* has been reset to None and the shutdown did not raise.
C29_LifespanShutsDown ==
    lifespan = "down"
        => /\ _freecad_connection = <<>>
           /\ last.outcome = "shut down"

\* A ping of the stored connection has returned True.
Pinged == last.method = "ping" /\ last.outcome = "True"

\* C21 (as claimed): the stored connection has the attributes host, port
\* and _connected; _connected is true after a ping that returned True and
\* false after construction.
C21_ConnectedFlag ==
    _freecad_connection # <<>> =>
        /\ {"host", "port", "_connected"} \subseteq DOMAIN conn_attrs
        /\ conn_attrs["host"] = "localhost"
        /\ conn_attrs["port"] = "9875"
        /\ Pinged => conn_attrs["_connected"] = "True"
        /\ last.method = "get_freecad_connection" /\ last.created
              => conn_attrs["_connected"] = "False"

\* C22: add_screenshot_if_available leaves the items already in the
\* response unchanged; with text-only mode off it appends exactly one item,
\* an image item carrying the screenshot when one is given and otherwise the
\* text note that the preview is unavailable; with text-only mode on it
\* appends nothing.
C22_ScreenshotAppended ==
    shot_result # <<>> =>
        LET before == shot_call.response
            after == shot_result[1]
            n == Len(before)
        IN  /\ Len(after) >= n
            /\ SubSeq(after, 1, n) = before
            /\ IF _only_text_feedback
               THEN Len(after) = n
               ELSE /\ Len(after) = n + 1
                    /\ IF shot_call.screenshot # <<>>
                       THEN /\ after[n + 1].type = "image"
                            /\ after[n + 1].data = shot_call.screenshot[1]
                       ELSE /\ after[n + 1].type = "text"
                            /\ after[n + 1].text = UnavailableNote

\* A screenshot was added to a response that already held two items.
C22_Witness ==
    /\ shot_result # <<>>
    /\ ~_only_text_feedback
    /\ Len(shot_call.response) = 2
    /\ shot_call.screenshot = <<"png">>
    /\ Len(shot_result[1]) = 3
    /\ shot_result[1][3].type = "image"

\* The text ", ".join makes of entries that are one run of text each.
JoinedText(entries) ==
    [i \in 1..(IF entries = <<>> THEN 0 ELSE 3 * Len(entries) - 2) |->
        IF i % 3 = 1 THEN entries[(i + 2) \div 3][1]
        ELSE IF i % 3 = 2 THEN Comma ELSE Space]

\* C28: after the dialog the stored allowed_ips is the value it was (dialog
\* cancelled, blank text, or no entry validated) or the ", "-joined list of
\* exactly the entries that validated; a value the command wrote
\* re-validates with no errors and at least one network.
C28_StoresOnlyValidEntries ==
    stored_ips # <<>> =>
        LET out == stored_ips[1]
            typed == validate_allowed_ips(strip(dlg_call.text))
            again == validate_allowed_ips(out.allowed_ips)
        IN  IF out.saved
            THEN /\ dlg_call.ok
                 /\ strip(dlg_call.text) # <<>>
                 /\ out.allowed_ips = JoinedText(typed.valid)
                 /\ \A i \in 1..Len(typed.valid) :
                       IsNetworkText(typed.valid[i])
                 /\ again.errors = <<>>
                 /\ again.valid = typed.valid
                 /\ _parse_allowed_ips(out.allowed_ips).networks # <<>>
            ELSE /\ out.allowed_ips = dlg_call.current_ips
                 /\ \/ ~dlg_call.ok
                    \/ strip(dlg_call.text) = <<>>
                    \/ typed.valid = <<>>

\* The dialog was accepted on a text with a valid and an invalid entry, and
\* only the valid entry was written.
C28_Witness ==
    /\ stored_ips # <<>>
    /\ stored_ips[1].saved
    /\ validate_allowed_ips(strip(dlg_call.text)).errors # <<>>
    /\ stored_ips[1].allowed_ips = <<"S">>
    /\ stored_ips[1].allowed_ips # dlg_call.current_ips

\* The text yields no valid network: it is blank or structurally malformed,
\* or none of its entries is an address or a subnet.
NoValidNetwork(s) ==
    \/ \A i \in 1..Len(s) : s[i] = Space
    \/ ~WellFormedList(s)
    \/ \A j \in 1..Len(Entries(s)) : ~IsNetworkText(Entries(s)[j])

\* C30: the access check fails closed.  A listener whose allowed_ips text
\* yields no valid network rejects every client, the loopback address
\* included, and a client address that is no IP address is rejected
\* whatever the allow-list.
C30_FailsClosed ==
    verdict # "none" =>
        /\ NoValidNetwork(acc_call.allowed_ips) => verdict = "rejected"
        /\ acc_call.client_ip = BadAddr => verdict = "rejected"

\* The loopback address was rejected by a listener configured with a
\* malformed list that names the loopback address.
C30_Witness ==
    /\ verdict = "rejected"
    /\ acc_call.client_ip = Loopback
    /\ acc_call.allowed_ips = <<"L", Comma>>

\* C27: across start_rpc_server, stop_rpc_server and the server toggle
\* there is at most one instance, the instance is set exactly when the
\* thread is set, a listener and its timer come into being only while
\* there is no instance, a start while running and a stop while stopped
\* change nothing, and a start whose listener cannot be created leaves the
\* state stopped.
C27_StartStopState ==
    [][/\ Len(rpc_server_instance') <= 1
       /\ (rpc_server_instance' = <<>>) <=> (rpc_server_thread' = "None")
       /\ (\E k \in Chains : chain[k] = "unused" /\ chain'[k] # "unused")
             => /\ rpc_server_instance = <<>>
                /\ rpc_server_instance' # <<>>
                /\ Cardinality({ k \in Chains : chain[k] # chain'[k] }) = 1
       /\ (rpc_server_instance # <<>> /\ rpc_server_instance' # <<>>)
             => /\ Instance.host = rpc_server_instance'[1].host
                /\ Instance.allowed_networks
                      = rpc_server_instance'[1].allowed_networks
                /\ rpc_server_thread # "None"
       /\ (msg' # msg /\ msg' \in {"RPC Server already running.",
                                    "RPC Server was not running.",
                                    "OSError"})
             => /\ UNCHANGED <<settings, rpc_server_instance,
                               rpc_server_thread, rpc_request_queue,
                               rpc_response_queue, call, chain, chainTask,
                               guiStop>>
                /\ (msg' = "RPC Server already running.")
                      <=> (rpc_server_instance # <<>>)
      ]_vars

\* A start was tried while the second listener of the session was running.
C27_Witness ==
    /\ msg = "RPC Server already running."
    /\ rpc_server_instance # <<>>
    /\ rpc_server_thread = "serving"
    /\ \A k \in Chains : chain[k] # "unused"

\* C25: a call of get_active_screenshot that has returned or raised has no
\* temporary file: a temporary file exists only for a screenshot call that
\* is still waiting for its capture WorkItem.
C25_TempFileDeleted ==
    \A c \in tmp_files :
        /\ Awaiting(c)
        /\ call[c].method = "get_active_screenshot"
        /\ call[c].got = 1

\* A screenshot call has returned its image after its capture WorkItem ran,
\* and no temporary file is left.
C25_Witness ==
    /\ \E c \in Calls : call[c].phase = "done" /\ call[c].ret = "image"
    /\ Len(pushed) >= 2
    /\ tmp_files = {}

====
